---- MODULE Spec2Model ----
(***************************************************************************)
(* B-spline basis evaluation (Cox - de Boor recursion, src/bspline.py) and *)
(* the knot-vector utilities of src/bspline/splinelab.py.                  *)
(*                                                                         *)
(* Numbers are exact rationals <<n, d>> (d > 0, lowest terms): the model   *)
(* follows the arithmetic of the code over the reals and leaves floating-  *)
(* point rounding out.  Arrays are sequences; Python's 0-based slices are  *)
(* translated by PySlice.                                                  *)
(***************************************************************************)
EXTENDS Integers, Sequences, FiniteSets, TLC

\* ------------------------------------------------------------- bounds

\* longest knot vector an evaluator is constructed on
MaxLen == 6
\* longest array handed to a splinelab function
MaxArr == 4
\* knot and site values are drawn from 0 .. MaxKnot (and the half steps between)
MaxKnot == 2
\* largest spline order drawn as an input (orders run from -1)
MaxOrder == 2
\* distinct queries one evaluator caches in the caching specification
MaxCalls == 3
\* longest sequence of collocation sites drawn as an input
MaxSites == 3
\* depth at which the interpreter gives up a recursion (RecursionError)
RecursionLimit == 4

VARIABLES
    constructed,   \* whether Bspline.__init__ has returned an object
    knot_vector,   \* self.knot_vector
    self_p,        \* self.p
    cache,         \* the object's memoize cache: key -> returned array
    ret,           \* the last memoized call: method, argument, outcome, cache hit
    args,          \* the arguments of the splinelab call under study
    out            \* the splinelab function applied and its outcome

vars == <<constructed, knot_vector, self_p, cache, ret, args, out>>

\* ------------------------------------------------------------- rationals

Abs(n) == IF n < 0 THEN -n ELSE n

RECURSIVE GCD(_, _)
GCD(a, b) == IF b = 0 THEN a ELSE GCD(b, a % b)

\* the rational n/d in lowest terms with a positive denominator (d # 0)
Rat(n, d) ==
    IF d = 1 THEN <<n, 1>>
    ELSE LET g == GCD(Abs(n), Abs(d))
             s == IF d < 0 THEN -1 ELSE 1
         IN  <<(s * n) \div g, (s * d) \div g>>

R(n) == <<n, 1>>
RAdd(a, b) == IF a[2] = b[2] THEN Rat(a[1] + b[1], a[2])
              ELSE Rat(a[1] * b[2] + b[1] * a[2], a[2] * b[2])
RSub(a, b) == IF a[2] = b[2] THEN Rat(a[1] - b[1], a[2])
              ELSE Rat(a[1] * b[2] - b[1] * a[2], a[2] * b[2])
RMul(a, b) == IF a[1] = 0 \/ b[1] = 0 THEN <<0, 1>>
              ELSE Rat(a[1] * b[1], a[2] * b[2])
\* a / b for b # 0
RDiv(a, b) == Rat(a[1] * b[2], a[2] * b[1])
RLe(a, b) == a[1] * b[2] <= b[1] * a[2]
RLt(a, b) == a[1] * b[2] < b[1] * a[2]
RIsZero(a) == a[1] = 0

\* conversion of a real to an integer dtype: truncation toward zero
Trunc(a) == IF a[1] >= 0 THEN R(a[1] \div a[2]) ELSE R(-((-a[1]) \div a[2]))

RECURSIVE RSum(_)
RSum(s) == IF s = <<>> THEN R(0) ELSE RAdd(s[1], RSum(Tail(s)))

\* ------------------------------------------------------------- arrays

Min(a, b) == IF a < b THEN a ELSE b
Max(a, b) == IF a > b THEN a ELSE b

\* a Python slice bound: negative counts from the end, then clamped to 0 .. n
PyIndex(i, n) == IF i < 0 THEN Max(i + n, 0) ELSE Min(i, n)

\* s[lo:hi] of Python
PySlice(s, lo, hi) == SubSeq(s, PyIndex(lo, Len(s)) + 1, PyIndex(hi, Len(s)))
\* s[lo:]
PyFrom(s, lo) == SubSeq(s, PyIndex(lo, Len(s)) + 1, Len(s))
\* s[:hi]
PyTo(s, hi) == SubSeq(s, 1, PyIndex(hi, Len(s)))

\* s equals sorted(s)
IsSorted(s) == \A i \in 1..(Len(s) - 1) : RLe(s[i], s[i + 1])

\* numpy broadcasting of two rank-1 shapes: equal lengths, or one of length 1
Broadcastable(a, b) == Len(a) = Len(b) \/ Len(a) = 1 \/ Len(b) = 1
BLen(a, b) == IF Len(a) = Len(b) THEN Len(a)
              ELSE IF Len(a) = 1 THEN Len(b)
              ELSE IF Len(b) = 1 THEN Len(a) ELSE 0
BAt(a, i) == IF Len(a) = 1 THEN a[1] ELSE a[i]

\* the array of length n whose entries the function f gives
Array(f, n) == SubSeq(f, 1, n)

VSub(a, b) == Array([i \in 1..BLen(a, b) |-> RSub(BAt(a, i), BAt(b, i))], BLen(a, b))
VMul(a, b) == Array([i \in 1..BLen(a, b) |-> RMul(BAt(a, i), BAt(b, i))], BLen(a, b))
VAdd(a, b) == Array([i \in 1..BLen(a, b) |-> RAdd(BAt(a, i), BAt(b, i))], BLen(a, b))
\* np.where(den != 0.0, num / den, 0.0)
VRatio(num, den) ==
    Array([i \in 1..BLen(num, den) |->
             IF RIsZero(BAt(den, i)) THEN R(0) ELSE RDiv(BAt(num, i), BAt(den, i))],
          BLen(num, den))

\* ------------------------------------------------------------- Bspline

\* faulty variant: the knot span closed at its right end
Basis0_closed(kv, xi) ==
    LET lo == PyTo(kv, -1)
        hi == PyFrom(kv, 1)
    IN  Array([i \in 1..BLen(lo, hi) |->
                 IF RLe(BAt(lo, i), xi) /\ RLe(xi, BAt(hi, i)) THEN R(1) ELSE R(0)],
              BLen(lo, hi))

\* Bspline.__basis0: entry i is 1.0 when knot[i] <= xi < knot[i+1], else 0.0
Basis0(kv, xi) ==
    LET lo == PyTo(kv, -1)
        hi == PyFrom(kv, 1)
    IN  Array([i \in 1..BLen(lo, hi) |->
                 IF RLe(BAt(lo, i), xi) /\ RLt(xi, BAt(hi, i)) THEN R(1) ELSE R(0)],
              BLen(lo, hi))

\* faulty variant: the end of the slice knot_vector[1:-p] forgotten
second_term_denominator_unsliced(kv, p) == VSub(PyFrom(kv, p + 1), PyFrom(kv, 1))

first_term_denominator(kv, p) == VSub(PyFrom(kv, p), PyTo(kv, -p))
second_term_denominator(kv, p) == VSub(PyFrom(kv, p + 1), PySlice(kv, 1, -p))

\* faulty variant: the second numerator with its operands exchanged
second_term_numerator_flipped(kv, selfp, xi, p, compute_derivatives) ==
    IF compute_derivatives /\ p = selfp THEN <<R(-p)>> ELSE VSub(<<xi>>, PyFrom(kv, p + 1))

\* the numerators; replaced by p and -p in the last recursion of a derivative
first_term_numerator(kv, selfp, xi, p, compute_derivatives) ==
    IF compute_derivatives /\ p = selfp THEN <<R(p)>> ELSE VSub(<<xi>>, PyTo(kv, -p))
second_term_numerator(kv, selfp, xi, p, compute_derivatives) ==
    IF compute_derivatives /\ p = selfp THEN <<R(-p)>> ELSE VSub(PyFrom(kv, p + 1), <<xi>>)

first_term(kv, selfp, xi, p, compute_derivatives) ==
    VRatio(first_term_numerator(kv, selfp, xi, p, compute_derivatives),
           first_term_denominator(kv, p))
second_term(kv, selfp, xi, p, compute_derivatives) ==
    VRatio(second_term_numerator(kv, selfp, xi, p, compute_derivatives),
           second_term_denominator(kv, p))

\* every elementwise operation of one recursion step has broadcastable operands
ShapesOK(kv, ft, st, basis_p_minus_1, p) ==
    /\ Broadcastable(PyFrom(kv, p), PyTo(kv, -p))
    /\ Broadcastable(PyFrom(kv, p + 1), PySlice(kv, 1, -p))
    /\ Broadcastable(PyTo(ft, -1), PyTo(basis_p_minus_1, -1))
    /\ Broadcastable(st, PyFrom(basis_p_minus_1, 1))
    /\ BLen(PyTo(ft, -1), PyTo(basis_p_minus_1, -1)) = BLen(st, PyFrom(basis_p_minus_1, 1))

\* faulty variant: the second term multiplied with the unshifted basis
Combine_unshifted(ft, st, basis_p_minus_1) ==
    VAdd(VMul(PyTo(ft, -1), PyTo(basis_p_minus_1, -1)),
         VMul(st, PyTo(basis_p_minus_1, -1)))

\* first_term[:-1] * basis_p_minus_1[:-1] + second_term * basis_p_minus_1[1:]
Combine(ft, st, basis_p_minus_1) ==
    VAdd(VMul(PyTo(ft, -1), PyTo(basis_p_minus_1, -1)),
         VMul(st, PyFrom(basis_p_minus_1, 1)))

\* the return statement of Bspline.__basis for p > 0, given the two terms
\* and the result r of the recursive call: the array, or numpy's shape error
Returned(kv, p, ft, st, r) ==
    IF ~ShapesOK(kv, ft, st, r.val, p)
    THEN [err |-> "ValueError", val |-> <<>>, depth |-> r.depth]
    ELSE [err |-> "none", val |-> Combine(ft, st, r.val), depth |-> r.depth]

\* what __basis does at order p > 0 once its recursive call has come back with r
AfterRecursion(kv, selfp, xi, p, compute_derivatives, r) ==
    IF r.err # "none" THEN r
    ELSE Returned(kv, p,
                  first_term(kv, selfp, xi, p, compute_derivatives),
                  second_term(kv, selfp, xi, p, compute_derivatives),
                  r)

\* Bspline.__basis(xi, p, compute_derivatives) entered at recursion depth
\* `depth`: the array it returns, or the exception it raises, and the deepest
\* frame it reached.
RECURSIVE Basis(_, _, _, _, _, _)
Basis(kv, selfp, xi, p, compute_derivatives, depth) ==
    IF depth > RecursionLimit
    THEN [err |-> "RecursionError", val |-> <<>>, depth |-> depth]
    ELSE IF p = 0
    THEN [err |-> "none", val |-> Basis0(kv, xi), depth |-> depth]
    ELSE AfterRecursion(kv, selfp, xi, p, compute_derivatives,
                        Basis(kv, selfp, xi, p - 1, FALSE, depth + 1))

\* faulty variant: a key that leaves the method out
MemoKey_without_func(func, xi) == <<"call", xi>>

\* the key memoize.__call__ files a result under: (self.func, args[1:], kw)
MemoKey(func, xi) == <<func, xi>>

\* the body of the memoized method named func
Compute(kv, selfp, func, xi) == Basis(kv, selfp, xi, selfp, func = "d", 0)

\* ------------------------------------------------------------- splinelab

\* A rank-1 numpy array is [ndim |-> 1, dtype |-> "int" or "float", data |-> sequence];
\* ndim |-> 2 stands for an argument of higher rank, which every function refuses.
NdArray(dtype, data) == [ndim |-> 1, dtype |-> dtype, data |-> data]
Raise(e) == [err |-> e, val |-> <<>>]
Return(v) == [err |-> "none", val |-> v]

\* assignment into an array of the given dtype: an integer array truncates
Store(dtype, x) == IF dtype = "int" THEN Trunc(x) ELSE x

\* faulty variant: order + 1 copies added at each end
augknt_one_more(knots, order) ==
    IF knots.ndim > 1 THEN Raise("ValueError: knots must be a list or a rank-1 array")
    ELSE IF knots.data = <<>> THEN Raise("IndexError")
    ELSE Return(NdArray(knots.dtype,
                [i \in 1..Max(order + 1, 0) |-> knots.data[1]]
                \o knots.data
                \o [i \in 1..Max(order + 1, 0) |-> knots.data[Len(knots.data)]]))

\* augknt(knots, order)
augknt(knots, order) ==
    IF knots.ndim > 1 THEN Raise("ValueError: knots must be a list or a rank-1 array")
    ELSE IF knots.data = <<>> THEN Raise("IndexError")
    ELSE Return(NdArray(knots.dtype,
                [i \in 1..Max(order, 0) |-> knots.data[1]]
                \o knots.data
                \o [i \in 1..Max(order, 0) |-> knots.data[Len(knots.data)]]))

\* out[j] = sum( t[j:(j+k)] ) / k, stored into an array of t's dtype (j from 0)
aveknt_entry(t, k, j) == Store(t.dtype, RDiv(RSum(PySlice(t.data, j, j + k)), R(k)))

\* aveknt(t, k), k >= 0
aveknt(t, k) ==
    IF t.ndim > 1 THEN Raise("ValueError: t must be a list or a rank-1 array")
    ELSE LET n == Len(t.data)
             u == Max(0, n - (k - 1))
         IN  IF u > 0 /\ k = 0 THEN Raise("ZeroDivisionError")
             ELSE Return(NdArray(t.dtype,
                         Array([j \in 1..u |-> aveknt_entry(t, k, j - 1)], u)))

\* the k of aptknt: order + 1, lowered to len(tau)
aptknt_k(tau, order) == IF Len(tau.data) < order + 1 THEN Len(tau.data) ELSE order + 1

\* the loop of aptknt over i in range(u): some tau[i+k-1] == tau[i]
aptknt_repeated(tau, k) ==
    LET u == Len(tau.data) - k
    IN  \E i \in 0..(u - 1) : tau.data[i + k - 1 + 1] = tau.data[i + 1]

\* aptknt(tau, order), order >= 0
aptknt(tau, order) ==
    LET k == aptknt_k(tau, order)
        n == Len(tau.data)
    IN  IF tau.ndim > 1 THEN Raise("ValueError: tau must be a list or a rank-1 array")
        ELSE IF ~IsSorted(tau.data) THEN Raise("ValueError: tau must be nondecreasing")
        ELSE IF aptknt_repeated(tau, k)
        THEN Raise("ValueError: k-fold (or higher) repeated sites not allowed")
        ELSE IF n = 0 THEN Raise("IndexError")
        ELSE LET prefix == [i \in 1..k |-> tau.data[1]]
                 suffix == [i \in 1..k |-> tau.data[n]]
                 tmp == aveknt(NdArray(tau.dtype, PySlice(tau.data, 1, -1)), k - 1)
             IN  IF tmp.err # "none" THEN tmp
                 ELSE Return(NdArray(tmp.val.dtype, prefix \o tmp.val.data \o suffix))

\* Python's None, the first value of e in knt2mlt
None == <<>>

\* faulty variant: count is not reset when a new value starts
RECURSIVE knt2mlt_loop_no_reset(_, _, _, _, _)
knt2mlt_loop_no_reset(t, k, e, count, acc) ==
    IF k > Len(t) THEN acc
    ELSE IF t[k] # e
    THEN knt2mlt_loop_no_reset(t, k + 1, t[k], count, Append(acc, count))
    ELSE knt2mlt_loop_no_reset(t, k + 1, e, count + 1, Append(acc, count + 1))

\* the loop of knt2mlt from index k (from 1) on, with the locals e, count and out
RECURSIVE knt2mlt_loop(_, _, _, _, _)
knt2mlt_loop(t, k, e, count, acc) ==
    IF k > Len(t) THEN acc
    ELSE IF t[k] # e
    THEN knt2mlt_loop(t, k + 1, t[k], 0, Append(acc, 0))
    ELSE knt2mlt_loop(t, k + 1, e, count + 1, Append(acc, count + 1))

\* knt2mlt(t): the multiplicities, as integers
knt2mlt(t) ==
    IF t.ndim > 1 THEN Raise("ValueError: t must be a list or a rank-1 array")
    ELSE Return(knt2mlt_loop(t.data, 1, None, 0, <<>>))

\* The k-th derivative of the order-p basis at xi, Bspline.diff(order=k)(xi):
\* the basis itself for k = 0, the zero vector for k > p, and otherwise the
\* difference-quotient coefficients p/(t[i+p]-t[i]) and -p/(t[i+p+1]-t[i+1])
\* applied to the (k-1)-th derivative of the order-(p-1) basis (p >= 0).
RECURSIVE derivative(_, _, _, _)
derivative(kv, p, xi, k) ==
    IF k = 0 THEN Basis(kv, p, xi, p, FALSE, 0).val
    ELSE IF k > p THEN [i \in 1..Len(Basis(kv, p, xi, p, FALSE, 0).val) |-> R(0)]
    ELSE Combine(first_term(kv, p, xi, p, TRUE), second_term(kv, p, xi, p, TRUE),
                 derivative(kv, p - 1, xi, k - 1))

\* faulty variant: every row is the basis itself, whatever the multiplicity of its site
RECURSIVE spcol_rows_values_only(_, _, _, _, _)
spcol_rows_values_only(kv, order, tau, m, i) ==
    IF i > Len(tau) THEN <<>>
    ELSE <<derivative(kv, order, tau[i], 0)>>
         \o spcol_rows_values_only(kv, order, tau, m, i + 1)

\* the rows of spcol's loop, A[i,:] = f(taui), from row i (from 1) on
RECURSIVE spcol_rows(_, _, _, _, _)
spcol_rows(kv, order, tau, m, i) ==
    IF i > Len(tau) THEN <<>>
    ELSE <<derivative(kv, order, tau[i], m[i])>> \o spcol_rows(kv, order, tau, m, i + 1)

\* spcol(knots, order, tau), order >= 0: the matrix as the sequence of its rows
spcol(knots, order, tau) ==
    LET m == knt2mlt(tau)
        dummy == Basis(knots.data, order, R(0), order, FALSE, 0)
        nbasis == Len(dummy.val)
        A == spcol_rows(knots.data, order, tau.data, m.val, 1)
    IN  IF m.err # "none" THEN m
        ELSE IF dummy.err # "none" THEN Raise(dummy.err)
        ELSE IF \E i \in 1..Len(A) : Len(A[i]) # nbasis /\ Len(A[i]) # 1
        THEN Raise("ValueError: could not broadcast input array")
        ELSE Return([nrows |-> Len(tau.data), ncols |-> nbasis, rows |-> A])

\* ------------------------------------------------------------- inputs

RECURSIVE SeqsOfLen(_, _)
\* all sequences over S of length n
SeqsOfLen(S, n) ==
    IF n = 0 THEN {<<>>}
    ELSE {Append(s, x) : s \in SeqsOfLen(S, n - 1), x \in S}

\* all sequences over S of length at most n
SeqsUpTo(S, n) == UNION {SeqsOfLen(S, k) : k \in 0..n}

RECURSIVE SortedOfLen(_, _)
\* all non-decreasing sequences over S of length n
SortedOfLen(S, n) ==
    IF n = 0 THEN {<<>>}
    ELSE {t \in {Append(s, x) : s \in SortedOfLen(S, n - 1), x \in S} : IsSorted(t)}

\* all non-decreasing sequences over S of length at most n
SortedUpTo(S, n) == UNION {SortedOfLen(S, k) : k \in 0..n}

KnotValues == {R(n) : n \in 0..MaxKnot}
\* knot vectors: non-decreasing, the precondition Bspline documents
KnotVectors == SortedUpTo(KnotValues, MaxLen)
Orders == -1..MaxOrder
\* query points: the knot values, the midpoints between them, one point outside on each side
XiValues == {Rat(n, 2) : n \in -1..(2 * MaxKnot + 1)}

\* the evaluators of the caching specification: the knots 0 .. MaxKnot with
\* the end knots repeated for the order, as augknt builds them
Linspace == [i \in 1..(MaxKnot + 1) |-> R(i - 1)]
CacheEvaluators ==
    {[knot_vector |-> augknt(NdArray("float", Linspace), o).val.data, p |-> o] :
        o \in 0..MaxOrder}
\* its query points: a knot, the middle of a span, the next knot
CacheXi == {R(0), Rat(1, 2), R(1)}

\* splinelab's arguments: arrays of either dtype, and one of higher rank
Arrays ==
    {NdArray(d, t) : d \in {"int", "float"}, t \in SeqsUpTo(KnotValues, MaxArr)}
    \cup {[ndim |-> 2, dtype |-> "float", data |-> <<>>]}
LabOrders == 0..MaxOrder
\* collocation sites: inside a knot span and on a knot, repeated up to MaxSites times
SiteValues == {Rat(1, 2), R(1)}
Sites == {NdArray("float", t) : t \in SortedUpTo(SiteValues, MaxSites)}
ColKnots(order) ==
    {NdArray("float", kv) : kv \in SortedOfLen(KnotValues, MaxLen)}
    \cup {augknt(NdArray("float", Linspace), order).val}

NoRet == [func |-> "none", xi |-> R(0), res |-> [err |-> "none", val |-> <<>>, depth |-> 0],
          hit |-> FALSE]
NoArgs == [f |-> "none"]
NoOut == [f |-> "none"]

\* ------------------------------------------------------------- Bspline object

\* Bspline.__init__(knot_vector, order): stores both, validates nothing
BsplineInit(kv, order) ==
    /\ ~constructed
    /\ constructed' = TRUE
    /\ knot_vector' = kv
    /\ self_p' = order
    /\ cache' = <<>>
    /\ UNCHANGED <<ret, args, out>>

\* memoize.__call__ around the method named func: a cached result is returned
\* as is; otherwise the method runs, and its result is stored unless it raised
Memoized(func, xi) ==
    LET key == MemoKey(func, xi)
        hit == key \in DOMAIN cache
    IN  /\ constructed
        /\ \E res \in {IF hit THEN cache[key] ELSE Compute(knot_vector, self_p, func, xi)} :
              /\ ret' = [func |-> func, xi |-> xi, res |-> res, hit |-> hit]
              /\ cache' = IF hit \/ res.err # "none" THEN cache ELSE (key :> res) @@ cache
        /\ UNCHANGED <<constructed, knot_vector, self_p, args, out>>

\* Bspline.__call__(xi)
Call(xi) == Memoized("call", xi)
\* Bspline.d(xi)
D(xi) == Memoized("d", xi)

\* ------------------------------------------------------------- Spec
\* Every evaluator, from its construction through its first query.

Init ==
    /\ constructed = FALSE
    /\ knot_vector = <<>>
    /\ self_p = 0
    /\ cache = <<>>
    /\ ret = NoRet
    /\ args = NoArgs
    /\ out = NoOut

FirstQuery == ret.func = "none"

Next ==
    \/ ~constructed /\ \E kv \in KnotVectors, order \in Orders : BsplineInit(kv, order)
    \/ FirstQuery /\ \E xi \in XiValues : Call(xi)
    \/ FirstQuery /\ \E xi \in XiValues : D(xi)

Spec == Init /\ [][Next]_vars

\* ------------------------------------------------------------- SpecCache
\* One evaluator, constructed, answering queries at up to MaxCalls distinct keys.

InitCache ==
    /\ constructed = TRUE
    /\ \E e \in CacheEvaluators : knot_vector = e.knot_vector /\ self_p = e.p
    /\ cache = <<>>
    /\ ret = NoRet
    /\ args = NoArgs
    /\ out = NoOut

\* a query is a repeat of a cached one, or there is room for one more entry
CanQuery(func, xi) ==
    MemoKey(func, xi) \in DOMAIN cache \/ Cardinality(DOMAIN cache) < MaxCalls

NextCache ==
    \/ \E xi \in CacheXi : CanQuery("call", xi) /\ Call(xi)
    \/ \E xi \in CacheXi : CanQuery("d", xi) /\ D(xi)

SpecCache == InitCache /\ [][NextCache]_vars

\* ------------------------------------------------------------- SpecLab
\* One call of a splinelab function on drawn arguments.

InitLab ==
    /\ constructed = FALSE
    /\ knot_vector = <<>>
    /\ self_p = 0
    /\ cache = <<>>
    /\ ret = NoRet
    /\ \/ \E a \in Arrays, n \in LabOrders : args = [f |-> "augknt", a |-> a, n |-> n]
       \/ \E a \in Arrays, n \in 0..(MaxOrder + 1) : args = [f |-> "aveknt", a |-> a, n |-> n]
       \/ \E a \in Arrays, n \in LabOrders : args = [f |-> "aptknt", a |-> a, n |-> n]
       \/ \E a \in Arrays : args = [f |-> "knt2mlt", a |-> a, n |-> 0]
       \/ \E n \in LabOrders : \E a \in ColKnots(n), tau \in Sites :
             args = [f |-> "spcol", a |-> a, n |-> n, tau |-> tau]
    /\ out = NoOut

Apply(f, result) ==
    /\ args.f = f
    /\ out.f = "none"
    /\ \E r \in {result} : out' = [f |-> f, err |-> r.err, val |-> r.val]
    /\ UNCHANGED <<constructed, knot_vector, self_p, cache, ret, args>>

DoAugknt == Apply("augknt", augknt(args.a, args.n))
DoAveknt == Apply("aveknt", aveknt(args.a, args.n))
DoAptknt == Apply("aptknt", aptknt(args.a, args.n))
DoKnt2mlt == Apply("knt2mlt", knt2mlt(args.a))
DoSpcol == Apply("spcol", spcol(args.a, args.n, args.tau))

NextLab == DoAugknt \/ DoAveknt \/ DoAptknt \/ DoKnt2mlt \/ DoSpcol

SpecLab == InitLab /\ [][NextLab]_vars

\* ------------------------------------------------------------- SpecApt
\* aptknt on drawn sites, then a Bspline of the same order constructed on the
\* knot vector it returned, then one evaluation.

InitApt ==
    /\ constructed = FALSE
    /\ knot_vector = <<>>
    /\ self_p = 0
    /\ cache = <<>>
    /\ ret = NoRet
    /\ \E a \in Arrays, n \in LabOrders : args = [f |-> "aptknt", a |-> a, n |-> n]
    /\ out = NoOut

\* Bspline(aptknt(tau, order), order): the basis generated from the returned knots
BuildOnKnots ==
    /\ out.f = "aptknt"
    /\ out.err = "none"
    /\ BsplineInit(out.val.data, args.n)

NextApt ==
    \/ DoAptknt
    \/ BuildOnKnots
    \/ FirstQuery /\ \E xi \in XiValues : Call(xi)

SpecApt == InitApt /\ [][NextApt]_vars

\* ------------------------------------------------------------- claims

\* the query point of the last call lies strictly inside the knot domain
StrictlyInside ==
    /\ Len(knot_vector) >= 1
    /\ RLt(knot_vector[1], ret.xi)
    /\ RLt(ret.xi, knot_vector[Len(knot_vector)])

\* the query point of the last call lies in [knots[p], knots[m-p-1]), the span
\* on which all p+1 overlapping basis functions of order p are present
InsideFullSupport ==
    /\ self_p >= 0
    /\ Len(knot_vector) >= self_p + 1
    /\ RLe(knot_vector[self_p + 1], ret.xi)
    /\ RLt(ret.xi, knot_vector[Len(knot_vector) - self_p])

\* C1 as stated: on every knot vector, for every order p >= 0, the entries of
\* evaluate(xi) sum to 1 at every xi strictly inside the knot domain.
C1_PartitionOfUnity_AsStated ==
    (constructed /\ ret.func = "call" /\ self_p >= 0 /\ StrictlyInside)
        => (ret.res.err = "none" /\ RSum(ret.res.val) = R(1))

\* C1, amended: on every non-decreasing knot vector, for every order p >= 0, the
\* entries of evaluate(xi) sum to 1 at every xi with knots[p] <= xi < knots[m-p-1].
C1_PartitionOfUnity ==
    (constructed /\ ret.func = "call" /\ InsideFullSupport)
        => (ret.res.err = "none" /\ RSum(ret.res.val) = R(1))

\* an order-2 evaluation inside the full support, with three non-zero entries
C1_Witness ==
    /\ constructed /\ ret.func = "call" /\ InsideFullSupport
    /\ self_p = 2
    /\ Cardinality({i \in 1..Len(ret.res.val) : ~RIsZero(ret.res.val[i])}) = 3
    /\ RSum(ret.res.val) = R(1)
\* C2: for a knot vector of length m and an order p >= 0, evaluate(xi) returns
\* at every query point a vector of length m - p - 1 when m >= p + 1, and an
\* empty vector when m < p + 1.
C2_BasisCount ==
    (constructed /\ ret.func = "call" /\ self_p >= 0)
        => /\ ret.res.err = "none"
           /\ Len(ret.res.val) = IF Len(knot_vector) >= self_p + 1
                                 THEN Len(knot_vector) - self_p - 1 ELSE 0

\* an order-2 evaluation on six knots returned three entries
C2_Witness ==
    /\ constructed /\ ret.func = "call"
    /\ self_p = 2 /\ Len(knot_vector) = 6
    /\ ret.res.err = "none" /\ Len(ret.res.val) = 3

\* C3: on one evaluator, every query, first or repeated, value or derivative,
\* returns what an uncached computation of that very query returns, and so
\* does every entry the cache holds; a repeated query returns the entry filed
\* under its own (method, xi) key.
C3_CachingContract ==
    /\ ret.func # "none" =>
          /\ ret.res = Compute(knot_vector, self_p, ret.func, ret.xi)
          /\ ret.hit => /\ <<ret.func, ret.xi>> \in DOMAIN cache
                        /\ ret.res = cache[<<ret.func, ret.xi>>]
    /\ \A key \in DOMAIN cache :
          cache[key] = Compute(knot_vector, self_p, key[1], key[2])

\* a derivative query answered from the cache while the cache also holds the
\* different value result for the same xi
C3_Witness ==
    /\ ret.func = "d" /\ ret.hit
    /\ <<"call", ret.xi>> \in DOMAIN cache
    /\ <<"d", ret.xi>> \in DOMAIN cache
    /\ cache[<<"call", ret.xi>>] # cache[<<"d", ret.xi>>]
    /\ ret.res = cache[<<"d", ret.xi>>]

\* the number of indices before k at which t holds the value t[k]
EqualBefore(t, k) == Cardinality({i \in 1..(k - 1) : t[i] = t[k]})

\* C4: for sorted sites, spcol returns a matrix with len(sites) rows and as many
\* columns as the evaluator has basis functions, and row i is the m_i-th
\* derivative of the basis at sites[i], m_i the number of equal sites before it.
C4_CollocationMatrix ==
    out.f = "spcol" =>
        /\ out.err = "none"
        /\ out.val.nrows = Len(args.tau.data)
        /\ Len(out.val.rows) = Len(args.tau.data)
        /\ out.val.ncols = Len(args.a.data) - args.n - 1
        /\ \A i \in 1..Len(args.tau.data) :
              /\ Len(out.val.rows[i]) = out.val.ncols
              /\ out.val.rows[i] =
                    derivative(args.a.data, args.n, args.tau.data[i],
                               EqualBefore(args.tau.data, i))

\* a site given three times on an order-2 basis: the rows are the value, the
\* first and the second derivative there, all three different
C4_Witness ==
    /\ out.f = "spcol" /\ out.err = "none"
    /\ args.n = 2
    /\ args.tau.data = <<R(1), R(1), R(1)>>
    /\ out.val.rows[1] = Basis(args.a.data, 2, R(1), 2, FALSE, 0).val
    /\ out.val.rows[2] = Basis(args.a.data, 2, R(1), 2, TRUE, 0).val
    /\ out.val.rows[1] # out.val.rows[2]
    /\ out.val.rows[2] # out.val.rows[3]
    /\ \E j \in 1..out.val.ncols : ~RIsZero(out.val.rows[3][j])

\* the number of entries of t equal to v
Occurrences(t, v) == Cardinality({i \in 1..Len(t) : t[i] = v})

\* C5 as stated: on non-decreasing tau, aptknt fails with the repeated-sites
\* error whenever some value occurs k = min(order+1, len(tau)) or more times,
\* wherever the repeat lies.  (Stated for k >= 2, where a site can repeat.)
C5_RepeatedSitesRejected_AsStated ==
    (/\ out.f = "aptknt" /\ args.a.ndim = 1 /\ IsSorted(args.a.data)
     /\ aptknt_k(args.a, args.n) >= 2
     /\ \E i \in 1..Len(args.a.data) :
           Occurrences(args.a.data, args.a.data[i]) >= aptknt_k(args.a, args.n))
        => out.err = "ValueError: k-fold (or higher) repeated sites not allowed"

\* C6 as stated: on non-empty non-decreasing tau that passes the repeated-sites
\* check, aptknt raises nothing and returns k copies of tau[0], then
\* aveknt(tau[1:-1], k-1), then k copies of tau[-1].
C6_AptkntResult_AsStated ==
    (/\ out.f = "aptknt" /\ args.a.ndim = 1 /\ args.a.data # <<>>
     /\ IsSorted(args.a.data)
     /\ ~aptknt_repeated(args.a, aptknt_k(args.a, args.n)))
        => LET k == aptknt_k(args.a, args.n)
               n == Len(args.a.data)
               mid == aveknt(NdArray(args.a.dtype, PySlice(args.a.data, 1, -1)), k - 1)
           IN  /\ out.err = "none"
               /\ mid.err = "none"
               /\ out.val.data = [i \in 1..k |-> args.a.data[1]]
                                 \o mid.val.data
                                 \o [i \in 1..k |-> args.a.data[n]]

\* C7: for non-empty rank-1 knots and order >= 0, augknt returns len(knots) +
\* 2*order entries: the first order+1 equal knots[0], the last order+1 equal
\* knots[-1], and the knots themselves, in order, after the first order entries.
C7_Augmentation ==
    (out.f = "augknt" /\ args.a.ndim = 1 /\ args.a.data # <<>> /\ args.n >= 0)
        => LET knots == args.a.data
               n == Len(knots)
               r == out.val.data
           IN  /\ out.err = "none"
               /\ Len(r) = n + 2 * args.n
               /\ \A i \in 1..(args.n + 1) : r[i] = knots[1]
               /\ \A i \in 1..(args.n + 1) : r[Len(r) + 1 - i] = knots[n]
               /\ SubSeq(r, args.n + 1, args.n + n) = knots

\* three different knots augmented for order 2
C7_Witness ==
    /\ out.f = "augknt" /\ out.err = "none"
    /\ args.n = 2
    /\ args.a.data = <<R(0), R(1), R(2)>>
    /\ out.val.data = <<R(0), R(0), R(0), R(1), R(2), R(2), R(2)>>

\* C8: for sorted t, knt2mlt(t) has the length of t and entry k is the number
\* of indices i < k with t[i] = t[k].
C8_Multiplicities ==
    (out.f = "knt2mlt" /\ args.a.ndim = 1 /\ IsSorted(args.a.data))
        => /\ out.err = "none"
           /\ Len(out.val) = Len(args.a.data)
           /\ \A k \in 1..Len(args.a.data) : out.val[k] = EqualBefore(args.a.data, k)

\* a value three times and then another one: [1,1,1,2] gives [0,1,2,0]
C8_Witness ==
    /\ out.f = "knt2mlt" /\ out.err = "none"
    /\ args.a.data = <<R(1), R(1), R(1), R(2)>>
    /\ out.val = <<0, 1, 2, 0>>

\* C9 as stated: for rank-1 t of either dtype and k >= 2, aveknt(t, k) raises
\* nothing, has max(0, len(t) - k + 1) entries, and entry j is the exact mean
\* of t[j], ..., t[j+k-1].
C9_RunningAverage_AsStated ==
    (out.f = "aveknt" /\ args.a.ndim = 1 /\ args.n >= 2)
        => LET t == args.a.data
               k == args.n
           IN  /\ out.err = "none"
               /\ Len(out.val.data) = Max(0, Len(t) - k + 1)
               /\ \A j \in 1..Len(out.val.data) :
                     out.val.data[j] = RDiv(RSum(SubSeq(t, j, j + k - 1)), R(k))

\* C10 as stated: no evaluator with a negative order exists, and every query
\* returns after a recursion whose depth equals the order.
C10_NegativeOrderRejected_AsStated ==
    /\ constructed => self_p >= 0
    /\ ret.func # "none" => (ret.res.err = "none" /\ ret.res.depth = self_p)

\* C11 as stated: a derivative query of order k > p returns the zero vector; in
\* particular the first derivative d(xi) of an order-0 evaluator is all zeros
\* at every xi.
C11_DerivativeBeyondOrder_AsStated ==
    (constructed /\ ret.func = "d" /\ self_p = 0)
        => /\ ret.res.err = "none"
           /\ \A i \in 1..Len(ret.res.val) : RIsZero(ret.res.val[i])

\* the number of entries of v equal to 1
Ones(v) == Cardinality({i \in 1..Len(v) : v[i] = R(1)})

\* the query point of the last call equals a knot that occurs more than once
OnRepeatedKnot ==
    \E i, j \in 1..Len(knot_vector) :
        i # j /\ knot_vector[i] = ret.xi /\ knot_vector[j] = ret.xi

\* the order-0 result of the last call has m - 1 entries, each 1 or 0, and
\* entry i is 1 exactly when knot[i] <= xi < knot[i+1]
IsIndicator ==
    /\ ret.res.err = "none"
    /\ Len(ret.res.val) = Len(knot_vector) - 1
    /\ \A i \in 1..Len(ret.res.val) :
          /\ ret.res.val[i] \in {R(0), R(1)}
          /\ ret.res.val[i] = R(1) <=>
                (RLe(knot_vector[i], ret.xi) /\ RLt(ret.xi, knot_vector[i + 1]))

\* C12 as stated: on every non-decreasing knot vector, at every xi that is not
\* a knot of multiplicity > 1, the order-0 evaluation is the indicator vector
\* of length m - 1 and exactly one of its entries is 1.  (Stated for m >= 2,
\* where the knot vector has a span.)
C12_OrderZeroIndicator_AsStated ==
    (/\ constructed /\ ret.func = "call" /\ self_p = 0
     /\ Len(knot_vector) >= 2 /\ ~OnRepeatedKnot)
        => (IsIndicator /\ Ones(ret.res.val) = 1)

\* C12, amended: on every non-decreasing knot vector, at every xi with
\* knots[0] <= xi < knots[-1], the order-0 evaluation is the indicator vector
\* of length m - 1 and exactly one of its entries is 1.
C12_OrderZeroIndicator ==
    (/\ constructed /\ ret.func = "call" /\ self_p = 0
     /\ Len(knot_vector) >= 1
     /\ RLe(knot_vector[1], ret.xi)
     /\ RLt(ret.xi, knot_vector[Len(knot_vector)]))
        => (IsIndicator /\ Ones(ret.res.val) = 1)

\* an order-0 evaluation at an interior knot that is given twice: the empty
\* span before it is 0 and the single 1 sits on the span after it
C12_Witness ==
    /\ constructed /\ ret.func = "call" /\ self_p = 0
    /\ knot_vector = <<R(0), R(1), R(1), R(2)>>
    /\ ret.xi = R(1)
    /\ ret.res.val = <<R(0), R(0), R(1)>>

\* C13 as stated: when len(tau) < order + 1, aptknt still returns a knot vector,
\* and the basis of that order built on it evaluates to a length-zero array at
\* every point.  (Stated for sorted tau of at least two sites.)
C13_TooFewSites_AsStated ==
    (/\ out.f = "aptknt" /\ args.a.ndim = 1 /\ IsSorted(args.a.data)
     /\ Len(args.a.data) >= 2
     /\ Len(args.a.data) < args.n + 1)
        => /\ out.err = "none"
           /\ ret.func = "call" => (ret.res.err = "none" /\ ret.res.val = <<>>)

\* the basis of recursion level q in the last call: the returned array at the
\* outermost level, the ordinary order-q basis below it
Level(q) ==
    IF q = self_p THEN ret.res.val
    ELSE Basis(knot_vector, self_p, ret.xi, q, FALSE, 0).val

\* term1 of level q at index j (from 1): (xi - knot[i]) / (knot[i+q] - knot[i]),
\* numerator q for a derivative, and 0 when the denominator is 0
Term1(q, j, deriv) ==
    LET den == RSub(knot_vector[j + q], knot_vector[j])
        num == IF deriv THEN R(q) ELSE RSub(ret.xi, knot_vector[j])
    IN  IF RIsZero(den) THEN R(0) ELSE RDiv(num, den)

\* term2 of level q at index j (from 1): (knot[i+q+1] - xi) / (knot[i+q+1] -
\* knot[i+1]), numerator -q for a derivative, and 0 when the denominator is 0
Term2(q, j, deriv) ==
    LET den == RSub(knot_vector[j + q + 1], knot_vector[j + 1])
        num == IF deriv THEN R(-q) ELSE RSub(knot_vector[j + q + 1], ret.xi)
    IN  IF RIsZero(den) THEN R(0) ELSE RDiv(num, den)

\* C14: in every value or first-derivative query on an evaluator of order
\* p >= 1, no error is raised and at every level q in 1..p and every index i,
\* N_q[i] = term1 * N_{q-1}[i] + term2 * N_{q-1}[i+1], each term 0 exactly
\* when its own denominator is 0; a derivative query has the numerators p and
\* -p at the outermost level only.
C14_CoxDeBoorStep ==
    (constructed /\ ret.func # "none" /\ self_p >= 1)
        => /\ ret.res.err = "none"
           /\ \A q \in 1..self_p :
                 LET cur == Level(q)
                     prev == Level(q - 1)
                     deriv == (ret.func = "d" /\ q = self_p)
                 IN  /\ Len(cur) = Max(Len(knot_vector) - q - 1, 0)
                     /\ \A j \in 1..Len(cur) :
                           cur[j] = RAdd(RMul(Term1(q, j, deriv), prev[j]),
                                         RMul(Term2(q, j, deriv), prev[j + 1]))

\* a first-derivative query of order 2 in which, at the outermost level, the
\* first denominator of some index is 0, the second is not, and the entry
\* there is not 0
C14_Witness ==
    /\ constructed /\ ret.func = "d" /\ self_p = 2 /\ ret.res.err = "none"
    /\ \E j \in 1..Len(ret.res.val) :
          /\ knot_vector[j + 2] = knot_vector[j]
          /\ knot_vector[j + 3] # knot_vector[j + 1]
          /\ ~RIsZero(ret.res.val[j])

====
